---- MODULE Spec2Model ----
(***************************************************************************)
(* Gmail mail-merge tool (src/app.py): the Streamlit script is re-run from *)
(* the top on every page load, button click and st.rerun().  The model     *)
(* keeps st.session_state, the files under /tmp, the locals of the sending *)
(* run and the position of the script (pc).  The sending run is split into *)
(* one step per row and one per post-loop statement, so that the process   *)
(* can stop between any two of them.                                       *)
(***************************************************************************)
EXTENDS Integers, Sequences, FiniteSets, TLC

\* ------------------------------------------------------------------ bounds
\* Longest recipient list of the small specification.
MaxRows == 2
\* Rows beyond the batch cap in the long list of the cap specification.
MaxOver == 1
\* Dispatches (clicks on the send button) per behaviour.
MaxRuns == 2
\* Remote calls that fail or answer off-nominally, per behaviour.
MaxFaults == 1
\* Process restarts per behaviour.
MaxCrashes == 1
\* Files removed or damaged under /tmp by the environment, per behaviour.
MaxEnv == 1
\* Longest text handed to extract_email on its own.
MaxLen == 6

\* -------------------------------------------------------- program constants
BATCH_SIZE_DEFAULT == 50
\* range(6) in fetch_message_id_header
FETCH_ATTEMPTS == 6

\* Python's None (as a text cell / scalar) and pandas' NaN (a blank CSV cell).
None == "<None>"
NaN == "<NaN>"
\* A blank Email cell: the Email column holds character tuples.
NaNChars == <<"<NaN>">>
\* None where a text is expected.
NoneChars == <<"<None>">>

MODE_NEW == "New Email"
MODE_FOLLOWUP == "Follow-up (Reply)"
MODE_DRAFT == "Save as Draft"
SendModes == {MODE_NEW, MODE_FOLLOWUP, MODE_DRAFT}

ReservedColumns == {"ThreadId", "RfcMessageId", "Status"}

\* The fields a template references: "Hello {Name}" (the default) or a
\* template without placeholders.
Templates == {{"Name"}, {}}
\* The templates of a run, subject and body: the defaults, which both
\* reference {Name}, or texts without placeholders.
TemplatePairs == {<<{"Name"}, {"Name"}>>, <<{}, {}>>}

\* ----------------------------------------------------------------- helpers
Range(s) == {s[k] : k \in DOMAIN s}

Get(f, k, d) == IF k \in DOMAIN f THEN f[k] ELSE d

Put(f, k, v) == [x \in DOMAIN f \cup {k} |-> IF x = k THEN v ELSE f[x]]

\* dict.update / session_state.update
Update(f, g) == [x \in DOMAIN f \cup DOMAIN g |-> IF x \in DOMAIN g THEN g[x] ELSE f[x]]

\* Python truthiness of a text value
Truthy(v) == v # "" /\ v # None

IndexSeq(n) == [k \in 1..n |-> k]

\* -------------------------------------------------------- extract_email
WordChars == {"a", "b", "c", "n", "1", "_"}
ClassChars == WordChars \cup {".", "-"}
Blank == " "

RECURSIVE LStrip(_)
LStrip(v) == IF v # <<>> /\ Head(v) = Blank THEN LStrip(Tail(v)) ELSE v

RECURSIVE RStrip(_)
RStrip(v) == IF v # <<>> /\ v[Len(v)] = Blank THEN RStrip(SubSeq(v, 1, Len(v) - 1)) ELSE v

\* str.strip()
Strip(v) == RStrip(LStrip(v))

\* str(value) of an Email cell: NaN prints as "nan"
StrChars(v) == IF v = NaNChars THEN <<"n", "a", "n">> ELSE v

\* End of the longest run of characters of cls that starts at position s
\* (s - 1 when v[s] is not in cls).
RECURSIVE RunEnd(_, _, _)
RunEnd(v, s, cls) ==
    IF s <= Len(v) /\ v[s] \in cls THEN RunEnd(v, s + 1, cls) ELSE s - 1

\* The end of the match of [\w\.-]+@[\w\.-]+\.\w+ that starts at s, 0 if none.
\* Greedy matching: the local part is the whole run of class characters at s
\* and must be followed by "@"; the domain part backs off to the last "." of
\* its run that is followed by a word character; the final \w+ takes the whole
\* run of word characters.
MatchEnd(v, s) ==
    LET e == RunEnd(v, s, ClassChars)
        d == e + 2
        r == RunEnd(v, d, ClassChars)
        dots == {p \in d..(r - 2) : v[p + 1] = "." /\ v[p + 2] \in WordChars}
        p == CHOOSE x \in dots : \A y \in dots : y <= x
    IN  IF e >= s /\ e + 1 <= Len(v) /\ v[e + 1] = "@" /\ dots # {}
        THEN RunEnd(v, p + 2, WordChars)
        ELSE 0

\* Variant: the last match of the text is returned.
RegexSearchLast(v) ==
    LET starts == {s \in 1..Len(v) : MatchEnd(v, s) > 0}
        s == CHOOSE x \in starts : \A y \in starts : y <= x
    IN  IF starts = {} THEN [found |-> FALSE, addr |-> <<>>]
        ELSE [found |-> TRUE, addr |-> SubSeq(v, s, MatchEnd(v, s))]

\* EMAIL_REGEX.search(value): the leftmost match.
RegexSearch(v) ==
    LET starts == {s \in 1..Len(v) : MatchEnd(v, s) > 0}
        s == CHOOSE x \in starts : \A y \in starts : x <= y
    IN  IF starts = {} THEN [found |-> FALSE, addr |-> <<>>]
        ELSE [found |-> TRUE, addr |-> SubSeq(v, s, MatchEnd(v, s))]

\* if not value: return None
extract_email(value) ==
    IF value = <<>> \/ value = NoneChars THEN [found |-> FALSE, addr |-> <<>>]
    ELSE RegexSearch(StrChars(value))

\* The Email cells of the recipient lists: an address, an empty text (a row
\* added in the grid) and a blank cell of a file.
ValidEmail == <<"a", "@", "b", ".", "c">>
Emails == {ValidEmail, <<>>}
EmailCells == Emails \cup {NaNChars}

\* extract_email(str(cell).strip()) for each of these cells.
AddrOf == [cell \in EmailCells |-> extract_email(Strip(StrChars(cell)))]

\* to_addr = extract_email(str(row.get("Email", "")).strip())
ToAddr(row) == AddrOf[Get(row, "Email", <<>>)]

\* ------------------------------------------------------------ CSV files
\* df.to_csv: a NaN cell is written as an empty field.
CsvCell(c, v) ==
    IF c = "Email" THEN (IF v = NaNChars THEN <<>> ELSE v)
    ELSE (IF v = NaN THEN "" ELSE v)

to_csv(df) == [k \in DOMAIN df |-> [c \in DOMAIN df[k] |-> CsvCell(c, df[k][c])]]

\* pd.read_csv: an empty field is read as NaN.
ReadCell(c, v) ==
    IF c = "Email" THEN (IF v = <<>> THEN NaNChars ELSE v)
    ELSE (IF v = "" THEN NaN ELSE v)

read_csv(csv) == [k \in DOMAIN csv |-> [c \in DOMAIN csv[k] |-> ReadCell(c, csv[k][c])]]

\* for col in ["ThreadId", "RfcMessageId", "Status"]: if col not in df.columns: df[col] = ""
AddMissingColumns(df) ==
    [k \in DOMAIN df |->
        [c \in DOMAIN df[k] \cup ReservedColumns |->
            IF c \in DOMAIN df[k] THEN df[k][c] ELSE ""]]

\* Variant: rows already marked Draft are left out as well.
PendingIndicesSkipsDraft(df) ==
    SelectSeq(IndexSeq(Len(df)), LAMBDA k : df[k]["Status"] \notin {"Sent", "Draft"})

\* pending_indices = df.index[df["Status"] != "Sent"].tolist()
PendingIndices(df) ==
    SelectSeq(IndexSeq(Len(df)), LAMBDA k : df[k]["Status"] # "Sent")

\* ------------------------------------------------------------------- state
VARIABLES
    session_state,     \* st.session_state: key -> value, keys come and go
    done_file,         \* DONE_FILE on disk
    tmp_files,         \* the exported CSV files under /tmp: path -> content
    clock,             \* datetime.now(), one tick per export
    uploaded_file,     \* the recipient list the user holds and uploads
    mailbox,           \* row -> messages the provider has sent for that row
    pc,                \* where the script stands
    i,                 \* position of the row loop in pending_indices
    batch_count,
    sent_count,
    skipped,
    errors,
    sent_message_ids,
    label_id,
    attempted,         \* remote send / draft calls made by this invocation
    sleeps,            \* pacing time.sleep calls made by this invocation
    request,           \* the msg_body of its latest remote send / draft call
    lookups,           \* messages().get calls made for its latest sent message
    label_calls,       \* the id lists it handed to batchModify
    candidate,         \* the argument of a call of extract_email
    match,             \* what that call returned
    budget             \* what is left of the bounds of the behaviour

tally == <<i, batch_count, sent_count, skipped, errors, sent_message_ids, label_id, attempted>>
remote == <<sleeps, request, lookups, label_calls>>
locals == <<tally, remote>>
disk == <<done_file, tmp_files, clock>>
pure == <<candidate, match>>
vars == <<session_state, done_file, tmp_files, clock, uploaded_file, mailbox, pc,
          i, batch_count, sent_count, skipped, errors, sent_message_ids, label_id,
          attempted, sleeps, request, lookups, label_calls, candidate, match, budget>>

\* st.session_state of a new session, and after session_state.clear()
EmptySession == [k \in {} |-> None]

\* No DONE_FILE / a DONE_FILE naming an export / one json.load cannot read
NoDoneFile == [exists |-> FALSE, readable |-> FALSE, file |-> None]
DoneFileFor(path) == [exists |-> TRUE, readable |-> TRUE, file |-> path]

\* os.path.join("/tmp", f"Updated_{safe_label}_{timestamp}.csv")
ExportPath(now) == "/tmp/Updated_Mail_Merge_Sent_" \o ToString(now) \o ".csv"

\* No remote send / draft call made yet.
NoRequest == [to |-> <<>>, in_reply_to |-> None, threadId |-> None]

\* extract_email has not been called / has returned None.
NotCalled == [found |-> FALSE, addr |-> <<"<NotCalled>">>]
NotFound == [found |-> FALSE, addr |-> <<>>]

df == session_state["df"]
pending_indices == session_state["pending_indices"]
send_mode == session_state["send_mode"]
sending == Get(session_state, "sending", FALSE)
done == Get(session_state, "done", FALSE)

\* ---------------------------------------------------------- recipient lists
InitStatuses == {"", "Sent", "Draft"}
ColumnSets == {{"Email"}, {"Email", "Name"}, {"Email", "Name", "Status"}}

CsvRows(cols) ==
    {[c \in cols |-> IF c = "Email" THEN e ELSE IF c = "Name" THEN "N" ELSE st] :
        e \in Emails, st \in (IF "Status" \in cols THEN InitStatuses ELSE {""})}

\* The files of the small specification: 1..MaxRows rows, the same columns
\* in every row.
SmallLists ==
    UNION {UNION {[1..n -> CsvRows(cols)] : n \in 1..MaxRows} : cols \in ColumnSets}

\* Lists for follow-ups: one row with the ThreadId and RfcMessageId of an
\* earlier message, either of them possibly blank.
ThreadLists ==
    {<<[Email |-> ValidEmail, Name |-> "N", ThreadId |-> t, RfcMessageId |-> r]>> :
        t \in {"t0", ""}, r \in {"<r0@mail>", ""}}

\* Lists one row longer, with one empty Email cell among valid ones.
ScenarioLists ==
    {[k \in 1..(MaxRows + 1) |->
        [Email |-> IF k = e THEN <<>> ELSE ValidEmail, Name |-> "N"]] :
        e \in 1..(MaxRows + 1)}

\* The files of the cap specification: more rows than the batch cap, every
\* row with a valid address but possibly the first.
LongLists ==
    {[k \in 1..(BATCH_SIZE_DEFAULT + over) |->
        [c \in cols |-> IF c = "Email" THEN (IF k = 1 THEN first ELSE ValidEmail) ELSE "N"]] :
        over \in 1..MaxOver, first \in Emails, cols \in {{"Email"}, {"Email", "Name"}}}

\* Messages the provider sent for the rows before the behaviour starts.
SentBefore(csv) ==
    [k \in DOMAIN csv |-> IF Get(csv[k], "Status", "") = "Sent" THEN 1 ELSE 0]

InitLocals ==
    /\ i = 1
    /\ batch_count = 0
    /\ sent_count = 0
    /\ skipped = <<>>
    /\ errors = <<>>
    /\ sent_message_ids = <<>>
    /\ label_id = None
    /\ attempted = 0
    /\ sleeps = 0
    /\ request = NoRequest
    /\ lookups = 0
    /\ label_calls = <<>>

\* The locals of a script run that is over.
ResetLocals ==
    /\ i' = 1
    /\ batch_count' = 0
    /\ sent_count' = 0
    /\ skipped' = <<>>
    /\ errors' = <<>>
    /\ sent_message_ids' = <<>>
    /\ label_id' = None
    /\ attempted' = 0
    /\ sleeps' = 0
    /\ request' = NoRequest
    /\ lookups' = 0
    /\ label_calls' = <<>>

InitWith(lists) ==
    /\ session_state = EmptySession
    /\ done_file = NoDoneFile
    /\ tmp_files = [p \in {} |-> <<>>]
    /\ clock = 0
    /\ uploaded_file \in lists
    /\ mailbox = SentBefore(uploaded_file)
    /\ pc = "boot"
    /\ InitLocals
    /\ candidate = <<>>
    /\ match = NotCalled
    /\ budget = [runs |-> MaxRuns, faults |-> MaxFaults, crashes |-> MaxCrashes, env |-> MaxEnv]

Init == InitWith(SmallLists \cup ThreadLists \cup ScenarioLists)

InitCap == InitWith(LongLists)

\* ------------------------------------------------------------ script runs
\* Variant: the export named by the marker is not looked for.
MarkerValidNoFileCheck(marker, files) ==
    /\ marker.exists
    /\ marker.readable
    /\ Truthy(marker.file)

\* Recovery logic, the test of line 60 included: the DONE_FILE is there, it
\* parses, and the export it names is still on disk.
MarkerValid(marker, files) ==
    /\ marker.exists
    /\ marker.readable
    /\ Truthy(marker.file)
    /\ marker.file \in DOMAIN files

\* One run of the script from its first line with the sending flag unset or
\* set: the session it leaves and the place it stops at ("recovery": st.stop()
\* of the recovery view; "auth": st.stop() of the OAuth flow; "main": the end
\* of the script, upload form and, when done, completion view rendered;
\* "loop": the row loop of the sending mode).
RunScript(ss, marker, files) ==
    IF marker.exists /\ ~Get(ss, "done", FALSE) /\ MarkerValid(marker, files)
    THEN [ss |-> Put(ss, "file_path", marker.file), pc |-> "recovery"]
    ELSE LET ss1 == IF "creds" \in DOMAIN ss THEN ss ELSE Put(ss, "creds", None)
             ss2 == IF "sending" \in DOMAIN ss1 THEN ss1 ELSE Put(ss1, "sending", FALSE)
             ss3 == IF "done" \in DOMAIN ss2 THEN ss2 ELSE Put(ss2, "done", FALSE)
         IN  IF ~Truthy(ss1["creds"]) THEN [ss |-> ss1, pc |-> "auth"]
             ELSE IF ss3["sending"] THEN [ss |-> ss3, pc |-> "loop"]
             ELSE [ss |-> ss3, pc |-> "main"]

\* The list the user holds after leaving a page: the CSV the page offered
\* for download (lines 63-69, 390-398) when it offered one.
Carry ==
    IF "file_path" \in DOMAIN session_state /\ session_state["file_path"] \in DOMAIN tmp_files
    THEN tmp_files[session_state["file_path"]]
    ELSE uploaded_file

\* The browser opens the page: a new session.
PageLoad ==
    /\ pc = "boot"
    /\ LET r == RunScript(EmptySession, done_file, tmp_files)
       IN  /\ session_state' = r.ss
           /\ pc' = r.pc
    /\ UNCHANGED <<disk, uploaded_file, mailbox, locals, pure, budget>>

\* The OAuth redirect comes back with a code: the credentials are stored and
\* the script is run again (lines 161-168).
Authorize ==
    /\ pc = "auth"
    /\ LET r == RunScript(Put(session_state, "creds", "token"), done_file, tmp_files)
       IN  /\ session_state' = r.ss
           /\ pc' = r.pc
    /\ UNCHANGED <<disk, uploaded_file, mailbox, locals, pure, budget>>

\* get_or_create_label: the label id, or None when the remote call fails.
LabelIds == {"Label_1", None}

\* The user uploads the list and clicks "Send Emails / Save Drafts" (lines
\* 195-258); the rerun enters the sending mode and runs it up to the row
\* loop (lines 263-283).
SendClick ==
    /\ pc = "main"
    /\ ~sending
    /\ budget.runs > 0
    /\ \E mode \in SendModes, tpl \in TemplatePairs, lid \in LabelIds :
        LET file == Carry
            frame == AddMissingColumns(read_csv(file))
            ss == Update(session_state,
                         [sending |-> TRUE,
                          df |-> frame,
                          pending_indices |-> PendingIndices(frame),
                          subject_template |-> tpl[1],
                          body_template |-> tpl[2],
                          label_name |-> "Mail Merge Sent",
                          delay |-> 20,
                          send_mode |-> mode])
            r == RunScript(ss, done_file, tmp_files)
            failed == mode = MODE_NEW /\ lid = None
        IN  /\ failed => budget.faults > 0
            /\ mode # MODE_NEW => lid = None
            /\ uploaded_file' = file
            /\ session_state' = r.ss
            /\ pc' = r.pc
            /\ label_id' = IF r.pc = "loop" THEN lid ELSE None
            /\ budget' = [budget EXCEPT !.runs = @ - 1,
                                        !.faults = IF failed THEN @ - 1 ELSE @]
    /\ i' = 1
    /\ batch_count' = 0
    /\ sent_count' = 0
    /\ skipped' = <<>>
    /\ errors' = <<>>
    /\ sent_message_ids' = <<>>
    /\ attempted' = 0
    /\ sleeps' = 0
    /\ request' = NoRequest
    /\ lookups' = 0
    /\ label_calls' = <<>>
    /\ UNCHANGED <<disk, mailbox, pure>>

\* ---------------------------------------------------------------- row loop
\* Variant: the break comes one row late.
CapReachedLate(mode, count) == mode # MODE_DRAFT /\ count > BATCH_SIZE_DEFAULT

\* if send_mode != "Save as Draft" and batch_count >= BATCH_SIZE_DEFAULT: break
CapReached(mode, count) == mode # MODE_DRAFT /\ count >= BATCH_SIZE_DEFAULT

\* template.format(**row) raises KeyError for a field the row lacks
RenderOk(template, row) == template \subseteq DOMAIN row

\* Variant: the cell is addressed by the position in the loop, not by the
\* row index.
SetCellAtPosition(frame, idx, col, value) == [frame EXCEPT ![i] = Put(@, col, value)]

\* df.loc[idx, col] = value
SetCell(frame, idx, col, value) == [frame EXCEPT ![idx] = Put(@, col, value)]

\* str(cell) of a text cell
Str(v) == IF v = NaN THEN "nan" ELSE v

\* msg_body and the reply headers of the message (lines 308-322): None where
\* the key or header is not set.
MsgBody(mode, row, to) ==
    LET thread_id == Str(Get(row, "ThreadId", ""))
        rfc_id == Str(Get(row, "RfcMessageId", ""))
        reply == mode = MODE_FOLLOWUP /\ Truthy(thread_id) /\ Truthy(rfc_id)
    IN  [to |-> to,
         in_reply_to |-> IF reply THEN rfc_id ELSE None,
         threadId |-> IF reply THEN thread_id ELSE None]

\* The provider's answer to messages().send for row idx, its n-th message.
SentMsg(body, idx, n) ==
    LET id == "m" \o ToString(idx) \o "." \o ToString(n)
    IN  [id |-> id,
         threadId |-> IF body.threadId # None THEN body.threadId ELSE "t" \o id]

\* The Message-ID header the provider gives the message.
HeaderOf(msg_id) == "<" \o msg_id \o "@mail>"

\* What one messages().get may answer: the header, metadata without it, or
\* an exception.
ReplyKinds == {"hit", "miss", "exc"}
AllMiss == [k \in 1..FETCH_ATTEMPTS |-> "miss"]
HeaderReplies ==
    {[k \in 1..FETCH_ATTEMPTS |-> "hit"],
     [k \in 1..FETCH_ATTEMPTS |-> IF k < 3 THEN "exc" ELSE "hit"],
     [k \in 1..FETCH_ATTEMPTS |-> IF k < FETCH_ATTEMPTS THEN "miss" ELSE "hit"],
     [k \in 1..FETCH_ATTEMPTS |-> "exc"],
     AllMiss}

\* fetch_message_id_header: the value returned and the lookups made.
RECURSIVE FetchFrom(_, _, _)
FetchFrom(replies, msg_id, k) ==
    IF k > FETCH_ATTEMPTS THEN [value |-> "", attempts |-> FETCH_ATTEMPTS]
    ELSE IF replies[k] = "hit" THEN [value |-> HeaderOf(msg_id), attempts |-> k]
    ELSE FetchFrom(replies, msg_id, k + 1)

fetch_message_id_header(replies, msg_id) == FetchFrom(replies, msg_id, 1)

\* Variant: the value of the lookup is written as it is.
RfcIdWithoutFallback(replies, msg_id) == fetch_message_id_header(replies, msg_id).value

\* fetch_message_id_header(service, msg_id) or msg_id
RfcIdFor(replies, msg_id) ==
    LET h == fetch_message_id_header(replies, msg_id).value
    IN  IF Truthy(h) THEN h ELSE msg_id

\* Off-nominal events inside the row loop (a remote failure, a header that
\* resolves late or never, a process stop) are drawn for its first positions
\* only.
EarlyRow == i <= MaxRows + 1

\* Variant: the loop has no batch cap.
LoopEndedNoCap == i > Len(session_state["pending_indices"])

\* The for loop is exhausted or breaks.
LoopEnded ==
    IF i > Len(pending_indices) THEN TRUE ELSE CapReached(send_mode, batch_count)

\* The body of the for loop is entered for the next pending index.
InLoop == pc = "loop" /\ ~LoopEnded

idx == pending_indices[i]
row == df[idx]

CanRender ==
    /\ RenderOk(session_state["subject_template"], row)
    /\ RenderOk(session_state["body_template"], row)

\* Variant: a skipped row counts toward the batch cap.
RowSkippedCounts ==
    /\ InLoop
    /\ ~ToAddr(row).found
    /\ skipped' = Append(skipped, Get(row, "Email", <<>>))
    /\ session_state' = Put(session_state, "df", SetCell(df, idx, "Status", "Skipped"))
    /\ batch_count' = batch_count + 1
    /\ i' = i + 1
    /\ UNCHANGED <<disk, uploaded_file, mailbox, pc, sent_count, errors,
                   sent_message_ids, label_id, attempted, remote, pure, budget>>

\* Variant: the skipped row is not recorded for the summary.
RowSkippedUnrecorded ==
    /\ InLoop
    /\ ~ToAddr(row).found
    /\ session_state' = Put(session_state, "df", SetCell(df, idx, "Status", "Skipped"))
    /\ i' = i + 1
    /\ UNCHANGED <<disk, uploaded_file, mailbox, pc, batch_count, sent_count, skipped, errors,
                   sent_message_ids, label_id, attempted, remote, pure, budget>>

\* Lines 295-299: no address in the Email cell.
RowSkipped ==
    /\ InLoop
    /\ ~ToAddr(row).found
    /\ skipped' = Append(skipped, Get(row, "Email", <<>>))
    /\ session_state' = Put(session_state, "df", SetCell(df, idx, "Status", "Skipped"))
    /\ i' = i + 1
    /\ UNCHANGED <<disk, uploaded_file, mailbox, pc, batch_count, sent_count, errors,
                   sent_message_ids, label_id, attempted, remote, pure, budget>>

\* Variant: the KeyError is raised outside the try and ends the script run.
RowRenderErrorEscapes ==
    /\ InLoop
    /\ ToAddr(row).found
    /\ ~CanRender
    /\ pc' = "main"
    /\ UNCHANGED <<session_state, disk, uploaded_file, mailbox, locals, pure, budget>>

\* Lines 302-303 raise inside the try: the except branch of lines 340-343.
RowRenderError ==
    /\ InLoop
    /\ ToAddr(row).found
    /\ ~CanRender
    /\ session_state' = Put(session_state, "df", SetCell(df, idx, "Status", "Error"))
    /\ errors' = Append(errors, <<ToAddr(row).addr, "KeyError">>)
    /\ i' = i + 1
    /\ UNCHANGED <<disk, uploaded_file, mailbox, pc, batch_count, sent_count, skipped,
                   sent_message_ids, label_id, attempted, remote, pure, budget>>

\* Lines 324-327 and 338-339: the draft is created.
RowDraft ==
    /\ InLoop
    /\ ToAddr(row).found
    /\ CanRender
    /\ send_mode = MODE_DRAFT
    /\ session_state' = Put(session_state, "df", SetCell(df, idx, "Status", "Draft"))
    /\ sent_count' = sent_count + 1
    /\ batch_count' = batch_count + 1
    /\ attempted' = attempted + 1
    /\ request' = MsgBody(send_mode, row, ToAddr(row).addr)
    /\ sleeps' = sleeps + 1
    /\ i' = i + 1
    /\ UNCHANGED <<disk, uploaded_file, mailbox, pc, skipped, errors, sent_message_ids,
                   label_id, lookups, label_calls, pure, budget>>

\* The row after a successful send (lines 330-333).
SentRow(frame, k, sent_msg, rfc_id) ==
    SetCell(SetCell(SetCell(frame, k, "ThreadId", sent_msg.threadId),
                    k, "RfcMessageId", rfc_id),
            k, "Status", "Sent")

\* Lines 328-339: the message is sent.
RowSend ==
    /\ InLoop
    /\ ToAddr(row).found
    /\ CanRender
    /\ send_mode # MODE_DRAFT
    /\ \E replies \in HeaderReplies :
        LET sent_msg == SentMsg(MsgBody(send_mode, row, ToAddr(row).addr), idx, mailbox[idx] + 1)
            fetched == fetch_message_id_header(replies, sent_msg.id)
            unresolved == fetched.value = ""
        IN  /\ unresolved => budget.faults > 0
            /\ fetched.attempts > 1 => EarlyRow
            /\ lookups' = fetched.attempts
            /\ budget' = [budget EXCEPT !.faults = IF unresolved THEN @ - 1 ELSE @]
            /\ session_state' = Put(session_state, "df",
                    SentRow(df, idx, sent_msg, RfcIdFor(replies, sent_msg.id)))
            /\ sent_message_ids' =
                    IF send_mode = MODE_NEW /\ label_id # None
                    THEN Append(sent_message_ids, sent_msg.id)
                    ELSE sent_message_ids
    /\ mailbox' = [mailbox EXCEPT ![idx] = @ + 1]
    /\ sent_count' = sent_count + 1
    /\ batch_count' = batch_count + 1
    /\ attempted' = attempted + 1
    /\ request' = MsgBody(send_mode, row, ToAddr(row).addr)
    /\ sleeps' = sleeps + 1
    /\ i' = i + 1
    /\ UNCHANGED <<disk, uploaded_file, pc, skipped, errors, label_id, label_calls, pure>>

\* Variant: a remote failure ends the loop.
RowRemoteErrorAborts ==
    /\ InLoop
    /\ ToAddr(row).found
    /\ CanRender
    /\ budget.faults > 0
    /\ EarlyRow
    /\ budget' = [budget EXCEPT !.faults = @ - 1]
    /\ session_state' = Put(session_state, "df", SetCell(df, idx, "Status", "Error"))
    /\ errors' = Append(errors, <<ToAddr(row).addr, "HttpError">>)
    /\ attempted' = attempted + 1
    /\ request' = MsgBody(send_mode, row, ToAddr(row).addr)
    /\ pc' = IF send_mode # MODE_DRAFT THEN "label" ELSE "finish"
    /\ UNCHANGED <<disk, uploaded_file, mailbox, i, batch_count, sent_count, skipped,
                   sent_message_ids, label_id, sleeps, lookups, label_calls, pure>>

\* drafts().create or messages().send raises: lines 340-343.
RowRemoteError ==
    /\ InLoop
    /\ ToAddr(row).found
    /\ CanRender
    /\ budget.faults > 0
    /\ EarlyRow
    /\ budget' = [budget EXCEPT !.faults = @ - 1]
    /\ session_state' = Put(session_state, "df", SetCell(df, idx, "Status", "Error"))
    /\ errors' = Append(errors, <<ToAddr(row).addr, "HttpError">>)
    /\ attempted' = attempted + 1
    /\ request' = MsgBody(send_mode, row, ToAddr(row).addr)
    /\ i' = i + 1
    /\ UNCHANGED <<disk, uploaded_file, mailbox, pc, batch_count, sent_count, skipped,
                   sent_message_ids, label_id, sleeps, lookups, label_calls, pure>>

\* Variant: the save and backup block runs in every mode.
LoopExitAlwaysSaves ==
    /\ pc = "loop"
    /\ LoopEnded
    /\ pc' = "label"
    /\ UNCHANGED <<session_state, disk, uploaded_file, mailbox, locals, pure, budget>>

\* The loop ends: every pending index visited, or the break of line 287.
LoopExit ==
    /\ pc = "loop"
    /\ LoopEnded
    /\ pc' = IF send_mode # MODE_DRAFT THEN "label" ELSE "finish"
    /\ UNCHANGED <<session_state, disk, uploaded_file, mailbox, locals, pure, budget>>

\* --------------------------------------------------------------- post-loop
\* Variant: only the id of the last message is handed to batchModify.
LabelLastOnly ==
    /\ pc = "label"
    /\ \E ok \in BOOLEAN :
        LET called == sent_message_ids # <<>> /\ label_id # None
        IN  /\ ~ok => (called /\ budget.faults > 0)
            /\ budget' = [budget EXCEPT !.faults = IF ok THEN @ ELSE @ - 1]
            /\ label_calls' =
                    IF called
                    THEN Append(label_calls, <<sent_message_ids[Len(sent_message_ids)]>>)
                    ELSE label_calls
    /\ pc' = "export"
    /\ UNCHANGED <<session_state, disk, uploaded_file, mailbox, tally, sleeps, request,
                   lookups, pure>>

\* Lines 347-354: one batchModify for the collected ids; a failure is only
\* reported.
Label ==
    /\ pc = "label"
    /\ \E ok \in BOOLEAN :
        LET called == sent_message_ids # <<>> /\ label_id # None
        IN  /\ ~ok => (called /\ budget.faults > 0)
            /\ budget' = [budget EXCEPT !.faults = IF ok THEN @ ELSE @ - 1]
            /\ label_calls' =
                    IF called THEN Append(label_calls, sent_message_ids) ELSE label_calls
    /\ pc' = "export"
    /\ UNCHANGED <<session_state, disk, uploaded_file, mailbox, tally, sleeps, request,
                   lookups, pure>>

\* Lines 356-363: the rows are written to a new file under /tmp.
Export ==
    /\ pc = "export"
    /\ clock' = clock + 1
    /\ tmp_files' = Put(tmp_files, ExportPath(clock'), to_csv(df))
    /\ session_state' = Put(session_state, "file_path", ExportPath(clock'))
    /\ pc' = "backup"
    /\ UNCHANGED <<done_file, uploaded_file, mailbox, locals, pure, budget>>

\* Variant: a failure of the backup mail ends the script run.
BackupFailureEscapes ==
    /\ pc = "backup"
    /\ \E ok \in BOOLEAN :
        /\ ~ok => budget.faults > 0
        /\ budget' = [budget EXCEPT !.faults = IF ok THEN @ ELSE @ - 1]
        /\ pc' = IF ok THEN "marker" ELSE "main"
    /\ UNCHANGED <<session_state, disk, uploaded_file, mailbox, locals, pure>>

\* Lines 365-368: send_email_backup catches its own failures.
Backup ==
    /\ pc = "backup"
    /\ \E ok \in BOOLEAN :
        /\ ~ok => budget.faults > 0
        /\ budget' = [budget EXCEPT !.faults = IF ok THEN @ ELSE @ - 1]
    /\ pc' = "marker"
    /\ UNCHANGED <<session_state, disk, uploaded_file, mailbox, locals, pure>>

\* Lines 370-371: DONE_FILE is (over)written with the path of the export.
WriteMarker ==
    /\ pc = "marker"
    /\ done_file' = DoneFileFor(session_state["file_path"])
    /\ pc' = "finish"
    /\ UNCHANGED <<session_state, tmp_files, clock, uploaded_file, mailbox, locals, pure, budget>>

\* Variant: the done flag is not set.
FinishNotDone ==
    /\ pc = "finish"
    /\ LET ss == Update(session_state,
                        [sending |-> FALSE,
                         summary |-> [sent |-> sent_count, errors |-> errors,
                                      skipped |-> skipped]])
           r == RunScript(ss, done_file, tmp_files)
       IN  /\ session_state' = r.ss
           /\ pc' = r.pc
    /\ ResetLocals
    /\ UNCHANGED <<disk, uploaded_file, mailbox, pure, budget>>

\* Lines 373-376, and the rerun up to the end of the script.
Finish ==
    /\ pc = "finish"
    /\ LET ss == Update(session_state,
                        [sending |-> FALSE,
                         done |-> TRUE,
                         summary |-> [sent |-> sent_count, errors |-> errors,
                                      skipped |-> skipped]])
           r == RunScript(ss, done_file, tmp_files)
       IN  /\ session_state' = r.ss
           /\ pc' = r.pc
    /\ ResetLocals
    /\ UNCHANGED <<disk, uploaded_file, mailbox, pure, budget>>

\* ------------------------------------------------------------------- reset
\* os.remove(DONE_FILE)
Removed(marker) == NoDoneFile

\* Variant: the keys of the run are dropped, the login is kept.
ClearedKeepsCreds(ss) == [k \in DOMAIN ss \cap {"creds"} |-> ss[k]]

\* st.session_state.clear()
Cleared(ss) == EmptySession

\* What a reset button does (lines 71-73, 401-404): the marker is removed,
\* the session cleared and the script run again.
ResetOutcome(ss, marker, files) ==
    LET m == IF marker.exists THEN Removed(marker) ELSE marker
        r == RunScript(Cleared(ss), m, files)
    IN  [ss |-> r.ss, pc |-> r.pc, marker |-> m]

\* "New Run / Reset" of the completion view (lines 400-404).
Reset ==
    /\ pc = "main"
    /\ done
    /\ ~sending
    /\ LET r == ResetOutcome(session_state, done_file, tmp_files)
       IN  /\ done_file' = r.marker
           /\ session_state' = r.ss
           /\ pc' = r.pc
    /\ uploaded_file' = Carry
    /\ UNCHANGED <<tmp_files, clock, mailbox, locals, pure, budget>>

\* "Reset for New Run" of the recovery view (lines 70-73).
ResetRecovery ==
    /\ pc = "recovery"
    /\ done_file.exists
    /\ LET r == ResetOutcome(session_state, done_file, tmp_files)
       IN  /\ done_file' = r.marker
           /\ session_state' = r.ss
           /\ pc' = r.pc
    /\ uploaded_file' = Carry
    /\ UNCHANGED <<tmp_files, clock, mailbox, locals, pure, budget>>

\* ------------------------------------------------------------- environment
\* The process stops (crash, restart, the session is dropped): the session
\* and the locals are lost, the files stay.
Crash ==
    /\ pc # "boot"
    /\ pc = "loop" => EarlyRow
    /\ budget.crashes > 0
    /\ budget' = [budget EXCEPT !.crashes = @ - 1]
    /\ session_state' = EmptySession
    /\ pc' = "boot"
    /\ ResetLocals
    /\ UNCHANGED <<disk, uploaded_file, mailbox, pure>>

\* An export is removed from /tmp.
DeleteArtifact ==
    /\ budget.env > 0
    /\ \E path \in DOMAIN tmp_files :
        tmp_files' = [q \in DOMAIN tmp_files \ {path} |-> tmp_files[q]]
    /\ budget' = [budget EXCEPT !.env = @ - 1]
    /\ UNCHANGED <<session_state, done_file, clock, uploaded_file, mailbox, pc, locals, pure>>

\* DONE_FILE is damaged: json.load raises.
CorruptMarker ==
    /\ budget.env > 0
    /\ done_file.exists
    /\ done_file.readable
    /\ done_file' = [done_file EXCEPT !.readable = FALSE]
    /\ budget' = [budget EXCEPT !.env = @ - 1]
    /\ UNCHANGED <<session_state, tmp_files, clock, uploaded_file, mailbox, pc, locals, pure>>

Next ==
    \/ PageLoad
    \/ Authorize
    \/ SendClick
    \/ RowSkipped
    \/ RowRenderError
    \/ RowDraft
    \/ RowSend
    \/ RowRemoteError
    \/ LoopExit
    \/ Label
    \/ Export
    \/ Backup
    \/ WriteMarker
    \/ Finish
    \/ Reset
    \/ ResetRecovery
    \/ Crash
    \/ DeleteArtifact
    \/ CorruptMarker

Spec == Init /\ [][Next]_vars

\* ------------------------------------------------ a process that stays up
\* The statements of the sending mode (lines 263-376): the script runs them
\* one after the other without waiting for the user.
Dispatch ==
    \/ RowSkipped
    \/ RowRenderError
    \/ RowDraft
    \/ RowSend
    \/ RowRemoteError
    \/ LoopExit
    \/ Label
    \/ Export
    \/ Backup
    \/ WriteMarker
    \/ Finish

\* The script with a process that is not stopped and files that stay.
NextLive ==
    \/ PageLoad
    \/ Authorize
    \/ SendClick
    \/ Dispatch
    \/ Reset

\* Every remote call returns or raises and every sleep ends, so a script run
\* in the sending mode goes on to its next statement.
SpecLive == Init /\ [][NextLive]_vars /\ WF_vars(Dispatch)

\* ------------------------------------------------- extract_email on its own
\* The characters of the texts: a word character, the characters the
\* pattern names, and one outside its classes.
Alphabet == {"a", "@", ".", "-", Blank}

\* Every text of up to MaxLen characters, None, and a text with two addresses.
Candidates ==
    UNION {[1..n -> Alphabet] : n \in 0..MaxLen}
        \cup {NoneChars, <<"a", "@", "b", ".", "c", Blank, "b", "@", "c", ".", "a">>}

InitExtract ==
    /\ candidate \in Candidates
    /\ match = NotCalled
    /\ session_state = EmptySession
    /\ done_file = NoDoneFile
    /\ tmp_files = [p \in {} |-> <<>>]
    /\ clock = 0
    /\ uploaded_file = <<>>
    /\ mailbox = <<>>
    /\ pc = "extract"
    /\ InitLocals
    /\ budget = [runs |-> 0, faults |-> 0, crashes |-> 0, env |-> 0]

\* One call of extract_email(candidate).
ExtractEmail ==
    /\ pc = "extract"
    /\ match = NotCalled
    /\ match' = extract_email(candidate)
    /\ UNCHANGED <<session_state, disk, uploaded_file, mailbox, pc, locals, candidate, budget>>

NextExtract == ExtractEmail

SpecExtract == InitExtract /\ [][NextExtract]_vars

SpecCap == InitCap /\ [][Next]_vars

\* ================================================================== claims
\* The script is inside the sending mode (lines 263-376).
RunPcs == {"loop", "label", "export", "backup", "marker", "finish"}
PostLoopPcs == RunPcs \ {"loop"}
Running == pc \in RunPcs

\* The Status a row has in the uploaded file.
FileStatus(k) == Get(uploaded_file[k], "Status", "")

\* C1: across the whole history, restarts in the middle of a batch included,
\* the provider sends at most one message per row.
C1_NeverSentTwice == \A k \in DOMAIN mailbox : mailbox[k] <= 1

\* C2: the pending set of a dispatch is exactly the rows of the uploaded list
\* whose Status is not "Sent", in row order: Sent rows are left out, rows with
\* any other Status (blank, Draft, Error, Skipped) are in it.
C2_PendingIsNotSent ==
    Running =>
        /\ \A k \in DOMAIN uploaded_file :
              (k \in Range(pending_indices)) <=> (FileStatus(k) # "Sent")
        /\ Range(pending_indices) \subseteq DOMAIN uploaded_file
        /\ \A a, b \in DOMAIN pending_indices :
              a < b => pending_indices[a] < pending_indices[b]

\* A dispatch over a list that holds a Sent row next to an Error row of an
\* earlier run and a Draft row.
C2_Witness ==
    /\ Running
    /\ \E k \in DOMAIN uploaded_file : FileStatus(k) = "Sent"
    /\ \E k \in DOMAIN uploaded_file :
          FileStatus(k) \in {"Error", "Skipped"} /\ k \in Range(pending_indices)

\* ---------------------------------------------------------------- C3
\* Remote calls of this invocation that raised.
RemoteFailures == Cardinality({k \in DOMAIN errors : errors[k][2] = "HttpError"})

StartFrame == AddMissingColumns(read_csv(uploaded_file))

\* A New-mode dispatch over more pending rows than the cap has left its loop
\* with no row skipped and no row failed.
CappedCleanRun(mode, pend, errs, skips) ==
    /\ mode = MODE_NEW
    /\ Len(pend) > BATCH_SIZE_DEFAULT
    /\ errs = <<>>
    /\ skips = <<>>

C4_FirstRun ==
    (pc = "label" /\ CappedCleanRun(send_mode, pending_indices, errors, skipped)) =>
        /\ sent_count = BATCH_SIZE_DEFAULT
        /\ \A j \in DOMAIN pending_indices :
              /\ j <= BATCH_SIZE_DEFAULT => df[pending_indices[j]]["Status"] = "Sent"
              /\ j > BATCH_SIZE_DEFAULT =>
                    df[pending_indices[j]] = StartFrame[pending_indices[j]]

C4_SecondRun ==
    (/\ pc = "main"
     /\ done
     /\ CappedCleanRun(send_mode, pending_indices,
                       session_state["summary"].errors, session_state["summary"].skipped)
     /\ session_state["file_path"] \in DOMAIN tmp_files
     /\ pc' = "loop")
    => session_state'["pending_indices"] =
         SubSeq(pending_indices, BATCH_SIZE_DEFAULT + 1, Len(pending_indices))

\* C4: with more pending rows than the cap, all with valid addresses and all
\* sends succeeding in New mode, exactly the first BATCH_SIZE_DEFAULT pending
\* rows become Sent and the others keep their cells; the next dispatch, over
\* the exported rows, has exactly those others as its pending set.
C4_CapSplitsTheList == [](C4_FirstRun) /\ [][C4_SecondRun]_vars

\* The second dispatch has sent the rows the cap left over.
C4_Witness ==
    /\ pc = "label"
    /\ pending_indices # <<>>
    /\ pending_indices[1] = BATCH_SIZE_DEFAULT + 1
    /\ sent_count = Len(pending_indices)

\* ---------------------------------------------------------------- C5
\* The loop is left only when it is exhausted or the cap is reached.
LoopRanOut ==
    pc \in PostLoopPcs =>
        \/ i > Len(pending_indices)
        \/ send_mode # MODE_DRAFT /\ batch_count >= BATCH_SIZE_DEFAULT

C5_Step ==
    (pc = "loop" /\ attempted' = attempted + 1 /\ sent_count' = sent_count) =>
        /\ session_state'["df"][idx]["Status"] = "Error"
        /\ Len(errors') = Len(errors) + 1
        /\ errors'[Len(errors')][1] = ToAddr(row).addr
        /\ SubSeq(errors', 1, Len(errors)) = errors
        /\ pc' = "loop"
        /\ i' = i + 1

\* C5: a failing remote send or draft call sets the row's Status to Error,
\* records (address, error text) and moves to the next pending row; the loop
\* is never left because a row failed.
C5_RemoteFailureContained == [](LoopRanOut) /\ [][C5_Step]_vars

\* The first pending row failed at the provider and the next one was sent.
C5_Witness ==
    /\ pc = "loop"
    /\ Len(pending_indices) >= 2
    /\ i = 3
    /\ errors # <<>>
    /\ errors[1][2] = "HttpError"
    /\ df[pending_indices[1]]["Status"] = "Error"
    /\ df[pending_indices[2]]["Status"] \in {"Sent", "Draft"}

\* ---------------------------------------------------------------- C6
C6_Step ==
    (/\ InLoop
     /\ ToAddr(row).found
     /\ ~CanRender
     /\ pc' # "boot"
     /\ <<pc, i, session_state>>' # <<pc, i, session_state>>) =>
        /\ session_state'["df"][idx]["Status"] = "Error"
        /\ \A k \in DOMAIN df : k # idx => session_state'["df"][k] = df[k]
        /\ errors' = Append(errors, <<ToAddr(row).addr, "KeyError">>)
        /\ mailbox' = mailbox
        /\ attempted' = attempted
        /\ pc' = "loop"
        /\ i' = i + 1

\* A completed run has gone through its loop.
C6_Completed ==
    (pc = "main" /\ done /\ ~sending) =>
        Len(session_state["summary"].errors) + Len(session_state["summary"].skipped)
            + session_state["summary"].sent <= Len(pending_indices)

\* C6: a template that references a field the row lacks fails that row only:
\* its Status becomes Error, nothing is sent for it, and the loop goes on with
\* the next row.
C6_RenderFailureContained == [](LoopRanOut /\ C6_Completed) /\ [][C6_Step]_vars

\* A run in which the first row could not be rendered has completed.
C6_Witness ==
    /\ pc = "main"
    /\ done
    /\ session_state["summary"].errors # <<>>
    /\ session_state["summary"].errors[1][2] = "KeyError"
    /\ Len(pending_indices) >= 2
    /\ Len(session_state["summary"].errors) = 2

\* ---------------------------------------------------------------- C7
\* C7: Completed is terminal until reset: with done set, no dispatch runs.
C7_CompletedIsTerminal == done => ~sending

\* ---------------------------------------------------------------- C8
C8_Step ==
    (pc = "boot" /\ pc' # "boot") =>
        LET valid == /\ done_file.exists
                     /\ done_file.readable
                     /\ done_file.file \in DOMAIN tmp_files
        IN  /\ (pc' = "recovery") <=> valid
            /\ valid => session_state' = [file_path |-> done_file.file]
            /\ ~valid => (pc' = "auth" /\ session_state' = [creds |-> None])
            /\ done_file' = done_file

\* C8: at startup the marker counts as present iff DONE_FILE can be read and
\* the export it names is still on disk; otherwise the start is the start of a
\* fresh run, without an error.
C8_MarkerNeedsArtifact == [][C8_Step]_vars

\* A start that found a readable marker whose export is gone.
C8_Witness ==
    /\ pc = "auth"
    /\ done_file.exists
    /\ done_file.readable
    /\ done_file.file \notin DOMAIN tmp_files
    /\ "file_path" \notin DOMAIN session_state

\* ---------------------------------------------------------------- C9
C9_Written ==
    done_file.exists => \E n \in 1..clock : done_file.file = ExportPath(n)

C9_Step ==
    /\ (done_file' # done_file /\ done_file'.exists /\ done_file'.readable) =>
          /\ pc = "marker"
          /\ pc' = "finish"
          /\ send_mode # MODE_DRAFT
          /\ \/ i > Len(pending_indices)
             \/ batch_count >= BATCH_SIZE_DEFAULT
          /\ clock >= 1
          /\ done_file'.file = ExportPath(clock)
          /\ done_file'.file \in DOMAIN tmp_files =>
                tmp_files[done_file'.file] = to_csv(df)
    /\ (Running /\ send_mode = MODE_DRAFT) =>
          \/ done_file' = done_file
          \/ done_file' = [done_file EXCEPT !.readable = FALSE]

\* C9: the marker is written only at the end of a New or Follow-up dispatch,
\* after its row loop and after the export it names; a Save-as-Draft run
\* never writes it; a later run overwrites the one marker.
C9_MarkerAfterExport == [](C9_Written) /\ [][C9_Step]_vars

\* A second run has overwritten the marker of the first.
C9_Witness ==
    /\ pc = "finish"
    /\ done_file.exists
    /\ done_file.file = ExportPath(2)

\* ---------------------------------------------------------------- C10
\* The session and place of a process that has run nothing: the first page
\* load with no marker on disk.
NeverRan == RunScript(EmptySession, NoDoneFile, tmp_files)

RunKeys ==
    {"df", "pending_indices", "subject_template", "body_template", "label_name",
     "delay", "send_mode", "summary", "sending", "done", "file_path"}

C10_Step ==
    (/\ pc \in {"main", "recovery"}
     /\ pc' # "boot"
     /\ \/ done_file.exists /\ ~done_file'.exists
        \/ done /\ ~Get(session_state', "done", FALSE)
        \/ pc' = "auth") =>
        /\ ~done_file'.exists
        /\ DOMAIN session_state' \cap RunKeys = {}
        /\ session_state' = NeverRan.ss
        /\ pc' = NeverRan.pc
        /\ i' = 1 /\ batch_count' = 0 /\ sent_count' = 0
        /\ skipped' = <<>> /\ errors' = <<>> /\ sent_message_ids' = <<>>

C10_Idempotent ==
    pc \in {"main", "recovery"} =>
        LET r1 == ResetOutcome(session_state, done_file, tmp_files)
            r2 == ResetOutcome(r1.ss, r1.marker, tmp_files)
        IN  r2 = r1

\* C10: reset, from the completion view or the recovery view, removes the
\* marker and clears the run configuration, the rows, the pending indices,
\* the summary and the flags: the session is that of a process that never
\* ran, and a second reset changes nothing.
C10_ResetToNeverRan == [](C10_Idempotent) /\ [][C10_Step]_vars

\* The completion view of a run that wrote an export has been reset.
C10_Witness ==
    /\ pc = "auth"
    /\ clock > 0
    /\ ~done_file.exists
    /\ budget.crashes = MaxCrashes
    /\ session_state = [creds |-> None]

\* ---------------------------------------------------------------- C11
\* C11: the pacing sleep follows every row for which a remote send or draft
\* call was made, failed calls included, and no other row: inside a dispatch
\* there are as many pacing sleeps as remote calls, so that a sleep lies
\* between any two consecutive calls.
C11_SleepAfterEveryAttempt == Running => sleeps = attempted

\* ---------------------------------------------------------------- C12
\* The row carries the identifiers of an earlier message: neither cell is
\* blank.
Carries(r) ==
    /\ Get(r, "ThreadId", "") \notin {"", NaN}
    /\ Get(r, "RfcMessageId", "") \notin {"", NaN}

C12_Step ==
    (pc = "loop" /\ send_mode = MODE_FOLLOWUP /\ attempted' = attempted + 1) =>
        /\ Carries(row) =>
              /\ request'.in_reply_to = row["RfcMessageId"]
              /\ request'.threadId = row["ThreadId"]
        /\ ~Carries(row) =>
              /\ request'.in_reply_to = None
              /\ request'.threadId = None
        /\ mailbox' # mailbox => session_state'["df"][idx]["Status"] = "Sent"

\* C12: a Follow-up send is a threaded reply (reply headers and thread id
\* from the row) exactly when the row has both a ThreadId and an
\* RfcMessageId; a row with either cell blank is sent as a new message
\* without reply headers and thread id; a successful send marks the row Sent.
C12_ThreadedIffBoth == [][C12_Step]_vars

\* ---------------------------------------------------------------- C13
\* The pending rows this invocation has marked Sent, in row order.
SentRows ==
    SelectSeq(SubSeq(pending_indices, 1, i - 1), LAMBDA k : df[k]["Status"] = "Sent")

\* The provider's ids of the messages sent for them.
SentIds ==
    [j \in DOMAIN SentRows |->
        "m" \o ToString(SentRows[j]) \o "." \o ToString(mailbox[SentRows[j]])]

\* The labeling step is behind.
Labeled == pc \in PostLoopPcs \ {"label"}

\* C13 as stated: after the loop of a New or Follow-up dispatch that marked
\* a row Sent, with a label name configured (and no failure of the label
\* lookup), exactly one batchModify call has been made, for the ids of all
\* rows marked Sent.
C13_LabelAnyNonDraft ==
    (/\ Labeled
     /\ send_mode # MODE_DRAFT
     /\ SentRows # <<>>
     /\ Truthy(session_state["label_name"])
     /\ send_mode = MODE_NEW => label_id # None) => label_calls = <<SentIds>>

\* C13 amended: after the loop of a New-mode dispatch that marked a row Sent
\* and had obtained the label id, exactly one batchModify call has been made,
\* for the ids of all rows marked Sent, in row order; in Follow-up and
\* Save-as-Draft mode, without a label id, without a row sent and before the
\* end of the loop there is no such call.
C13_LabelOnceInNewMode ==
    Running =>
        label_calls =
            IF Labeled /\ send_mode = MODE_NEW /\ label_id # None /\ SentRows # <<>>
            THEN <<SentIds>>
            ELSE <<>>

\* Two rows were sent and their ids labeled in one call.
C13_Witness ==
    /\ pc = "export"
    /\ Len(SentRows) = 2
    /\ label_calls = <<SentIds>>

\* ---------------------------------------------------------------- C14
\* A remote call of this step failed.
CallFailed == budget'.faults < budget.faults

C14_Step ==
    /\ (pc = "label" /\ CallFailed) =>
          /\ session_state' = session_state
          /\ pc' = "export"
    /\ (pc = "backup" /\ CallFailed) =>
          /\ session_state' = session_state
          /\ tmp_files' = tmp_files
          /\ pc' = "marker"
    /\ (pc = "marker" /\ pc' # "boot" /\ pc' # "marker") =>
          /\ done_file' = DoneFileFor(session_state["file_path"])
          /\ pc' = "finish"
    /\ (pc = "finish" /\ pc' # "boot" /\ pc' # "finish") =>
          /\ pc' = "main"
          /\ session_state'["done"]
          /\ ~session_state'["sending"]
          /\ session_state'["df"] = df

\* The export of this run is written once the export step is behind, and
\* it holds the rows as the loop left them.
C14_Exported ==
    (pc \in {"backup", "marker", "finish"} /\ send_mode # MODE_DRAFT /\ budget.env = MaxEnv) =>
        /\ session_state["file_path"] \in DOMAIN tmp_files
        /\ tmp_files[session_state["file_path"]] = to_csv(df)

\* C14: a failing batchModify or backup mail changes no cell of any row and
\* does not end the run: the export is written after a failed labeling, the
\* marker after a failed backup, and the run goes on to its completion.
C14_AuxFailureContained == [](C14_Exported) /\ [][C14_Step]_vars

\* The first run of the behaviour has written its marker although its one
\* failing call was the batchModify or the backup mail.
C14_Witness ==
    /\ pc = "finish"
    /\ send_mode = MODE_NEW
    /\ clock = 1
    /\ budget.runs = MaxRuns - 1
    /\ budget.faults = MaxFaults - 1
    /\ label_id # None
    /\ errors = <<>>
    /\ SentRows # <<>>
    /\ \A j \in DOMAIN SentRows : df[SentRows[j]]["RfcMessageId"] = HeaderOf(SentIds[j])
    /\ done_file = DoneFileFor(ExportPath(1))

\* ---------------------------------------------------------------- C15
\* The pending rows this invocation has given the Status st, in row order.
RowsSet(st) ==
    SelectSeq(SubSeq(pending_indices, 1, i - 1), LAMBDA k : df[k]["Status"] = st)

\* The skipped and errors lists agree with the rows set to Skipped and Error.
ListsAgree ==
    /\ skipped = [j \in DOMAIN RowsSet("Skipped") |-> df[RowsSet("Skipped")[j]]["Email"]]
    /\ Len(errors) = Len(RowsSet("Error"))
    /\ \A j \in DOMAIN errors :
          /\ errors[j][1] = ToAddr(df[RowsSet("Error")[j]]).addr
          /\ errors[j][2] \in {"KeyError", "HttpError"}

\* Lines 373-375 store the counters of the run as its summary.
C15_Step ==
    (pc = "finish" /\ pc' = "main") =>
        session_state'["summary"] =
            [sent |-> sent_count, errors |-> errors, skipped |-> skipped]

\* C15 as stated: at the end of a dispatch, in every send mode, the sent
\* counter is the number of rows set to Sent, and the skipped and errors
\* lists have one entry per row set to Skipped and to Error.
C15_SentCounterIsSentRows ==
    pc = "finish" => (sent_count = Len(RowsSet("Sent")) /\ ListsAgree)

C15_Counters ==
    pc = "finish" =>
        /\ send_mode # MODE_DRAFT => sent_count = Len(RowsSet("Sent"))
        /\ send_mode = MODE_DRAFT => sent_count = Len(RowsSet("Draft"))
        /\ ListsAgree

\* C15 amended: at the end of a dispatch the summary agrees with the
\* statuses set by the invocation: in New and Follow-up mode the sent counter
\* is the number of rows set to Sent, in Save-as-Draft mode it is the number
\* of rows set to Draft; the skipped list has the raw Email value of every
\* row set to Skipped and the errors list an (address, error text) entry for
\* every row set to Error, both in row order.
C15_SummaryAgrees == [](C15_Counters) /\ [][C15_Step]_vars

\* New mode, two rows with an address and one without: sent 2, skipped 1,
\* errors 0.
C15_Witness ==
    /\ pc = "finish"
    /\ send_mode = MODE_NEW
    /\ Len(pending_indices) = 3
    /\ sent_count = 2
    /\ Len(skipped) = 1
    /\ errors = <<>>
    /\ Len(RowsSet("Sent")) = 2

\* ---------------------------------------------------------------- C16
\* The row of this step has been sent.
RowWasSent == pc = "loop" /\ mailbox' # mailbox

\* The id the provider gave the message of this step.
NewMsgId == "m" \o ToString(idx) \o "." \o ToString(mailbox'[idx])

\* What holds of every successful send, resolved or not.
C16_Sent ==
    /\ session_state'["df"][idx]["Status"] = "Sent"
    /\ session_state'["df"][idx]["ThreadId"] =
          IF request'.threadId # None THEN request'.threadId ELSE "t" \o NewMsgId
    /\ lookups' \in 1..FETCH_ATTEMPTS
    /\ ~CallFailed => session_state'["df"][idx]["RfcMessageId"] = HeaderOf(NewMsgId)
    /\ lookups' < FETCH_ATTEMPTS => ~CallFailed

C16_StepAsStated ==
    RowWasSent =>
        /\ C16_Sent
        /\ CallFailed => session_state'["df"][idx]["RfcMessageId"] = ""

\* C16 as stated: after a successful send the row has the provider's thread
\* id and the Message-ID header found by at most FETCH_ATTEMPTS lookups, and
\* the empty string when no lookup found the header.
C16_EmptyWhenUnresolved == [][C16_StepAsStated]_vars

C16_Step ==
    RowWasSent =>
        /\ C16_Sent
        /\ CallFailed => session_state'["df"][idx]["RfcMessageId"] = NewMsgId

\* C16 amended: after a successful send the row has the provider's thread
\* id and the Message-ID header found by at most FETCH_ATTEMPTS lookups,
\* none of which makes the row fail; when no lookup finds the header the
\* lookup returns the empty string and the row gets the provider's message
\* id as its RfcMessageId.
C16_MessageIdWhenUnresolved == [][C16_Step]_vars

\* A row was sent and none of the lookups found its header.
C16_Witness ==
    /\ pc = "loop"
    /\ i = 2
    /\ lookups = FETCH_ATTEMPTS
    /\ df[pending_indices[1]]["Status"] = "Sent"
    /\ df[pending_indices[1]]["RfcMessageId"] =
          "m" \o ToString(pending_indices[1]) \o "." \o ToString(mailbox[pending_indices[1]])

\* ---------------------------------------------------------------- C17
\* v[s..e] has the shape local-part@domain.tld: one or more word characters,
\* dots and hyphens, "@", one or more of the same, ".", one or more word
\* characters.
IsAddress(v, s, e) ==
    \E at \in (s + 1)..(e - 3) : \E dot \in (at + 2)..(e - 1) :
        /\ v[at] = "@"
        /\ v[dot] = "."
        /\ \A k \in s..(at - 1) : v[k] \in ClassChars
        /\ \A k \in (at + 1)..(dot - 1) : v[k] \in ClassChars
        /\ \A k \in (dot + 1)..e : v[k] \in WordChars

\* The places of the substrings of v that have this shape.
Addresses(v) ==
    IF v = NoneChars THEN {}
    ELSE {p \in (1..Len(v)) \X (1..Len(v)) : IsAddress(v, p[1], p[2])}

C17_Result ==
    match # NotCalled =>
        IF Addresses(candidate) = {} THEN match = NotFound
        ELSE /\ match.found
             /\ \E p \in Addresses(candidate) :
                   /\ match.addr = SubSeq(candidate, p[1], p[2])
                   /\ \A q \in Addresses(candidate) :
                         q[1] > p[1] \/ (q[1] = p[1] /\ q[2] <= p[2])

C17_Frame ==
    match' # match =>
        UNCHANGED <<session_state, disk, uploaded_file, mailbox, pc, locals, candidate>>

\* C17: extract_email returns the first substring of its argument that has
\* the shape local-part@domain.tld (the leftmost one, taken as far as it
\* goes) when there is one, and None when there is none, for the empty text
\* and for None; the call changes nothing else.
C17_FirstAddressOrNone == [](C17_Result) /\ [][C17_Frame]_vars

\* An address was found inside a longer text that holds a second one.
C17_Witness ==
    /\ match.found
    /\ Len(candidate) > Len(match.addr)
    /\ \E p \in Addresses(candidate) : p[1] > 1 /\ SubSeq(candidate, p[1], p[2]) # match.addr

\* ---------------------------------------------------------------- C18
\* The statuses the loop writes.
RunStatuses == {"Sent", "Draft", "Skipped", "Error"}

C18_Rows ==
    Running =>
        /\ \A a, b \in DOMAIN pending_indices : a # b => pending_indices[a] # pending_indices[b]
        /\ \A k \in DOMAIN df :
              k \notin Range(pending_indices) => df[k] = StartFrame[k]
        /\ \A j \in DOMAIN pending_indices :
              /\ j >= i => df[pending_indices[j]] = StartFrame[pending_indices[j]]
              /\ j < i => df[pending_indices[j]]["Status"] \in RunStatuses

C18_Step ==
    (Running /\ pc' \in RunPcs /\ session_state'["df"] # df) =>
        /\ pc = "loop"
        /\ i \in DOMAIN pending_indices
        /\ i' = i + 1
        /\ \A k \in DOMAIN df : k # idx => session_state'["df"][k] = df[k]
        /\ session_state'["df"][idx]["Status"] \in RunStatuses
        /\ session_state'["pending_indices"] = pending_indices

\* C18: inside one invocation a row is written at most once and only if it
\* is pending: each step of the loop writes the row of the current pending
\* index and moves on, the rows written earlier and the rows outside the
\* pending set keep all their cells.
C18_WrittenOnce == [](C18_Rows) /\ [][C18_Step]_vars

\* A run over a list with a Sent row has written its one pending row.
C18_Witness ==
    /\ pc \in PostLoopPcs
    /\ Len(df) = 2
    /\ pending_indices = <<2>>
    /\ i = 2
    /\ df[1]["Status"] = "Sent"
    /\ df[2]["Status"] \in RunStatuses

\* ---------------------------------------------------------------- C19
C19_Step ==
    (/\ InLoop
     /\ ~ToAddr(row).found
     /\ pc' # "boot"
     /\ <<i, session_state>>' # <<i, session_state>>) =>
        /\ session_state'["df"][idx] = Put(row, "Status", "Skipped")
        /\ skipped' = Append(skipped, row["Email"])
        /\ mailbox' = mailbox
        /\ request' = request
        /\ attempted' = attempted
        /\ batch_count' = batch_count
        /\ sent_count' = sent_count
        /\ sleeps' = sleeps
        /\ errors' = errors
        /\ pc' = "loop"
        /\ i' = i + 1

\* The rows counted toward the cap are rows for which a remote call was
\* made and succeeded.
C19_CapCountsSends ==
    Running =>
        /\ batch_count = sent_count
        /\ batch_count + Len(skipped) + Len(errors) = i - 1

\* C19: a pending row without a valid address gets the Status Skipped and
\* its raw Email value is recorded; no remote call is made for it and no
\* counter moves, so that skipped rows leave the batch cap untouched.
C19_SkipIsFree == [](C19_CapCountsSends) /\ [][C19_Step]_vars

\* With one row skipped, the run has sent BATCH_SIZE_DEFAULT rows and has
\* visited every one of its BATCH_SIZE_DEFAULT + 1 pending rows.
C19_Witness ==
    /\ pc = "label"
    /\ Len(skipped) = 1
    /\ sent_count = BATCH_SIZE_DEFAULT
    /\ i = Len(pending_indices) + 1
    /\ Len(pending_indices) = BATCH_SIZE_DEFAULT + 1

\* ---------------------------------------------------------------- C20
\* The completion view of a finished run.
Completed ==
    /\ pc = "main"
    /\ done
    /\ ~sending
    /\ "summary" \in DOMAIN session_state

C20_Visits == Running => i \in 1..(Len(pending_indices) + 1)

C20_Step ==
    (Running /\ pc' \in RunPcs) =>
        \/ i' = i /\ (pc = "loop" => pc' # "loop")
        \/ pc = "loop" /\ pc' = "loop" /\ i \in DOMAIN pending_indices /\ i' = i + 1

\* C20: every dispatch ends: whatever the mode, the rows and the outcomes
\* of the remote calls, the script leaves the sending mode with sending
\* unset, done set and a summary stored, after at most one visit of each
\* pending index.
C20_Terminates == [](C20_Visits) /\ [][C20_Step]_vars /\ (Running ~> Completed)

\* A run with a failed remote call and a sent row is complete.
C20_Witness ==
    /\ Completed
    /\ session_state["summary"].errors # <<>>
    /\ session_state["summary"].sent >= 1
    /\ budget.faults = 0

====
